---- MODULE Spec2Model ----
(***************************************************************************)
(* Model of protogen: four scripts that query a gRPC server's reflection   *)
(* services and synthesize .proto files from what they find.               *)
(*                                                                         *)
(*   "cosmos" : src/generateProtos.js lines 1-205   (v1beta1 interfaces)   *)
(*   "full"   : src/generateProtos.js lines 207-550 (three dialects)       *)
(*   "query"  : src/unnamed/part_000 lines 1-185    (method table)         *)
(*   "grpc"   : src/unnamed/part_000 lines 187-434  (generic reflection)   *)
(*                                                                         *)
(* A dotted name ("pkg.Animal") is the sequence of its segments, i.e. the  *)
(* value of name.split('.').  A file's text is the sequence of the pieces  *)
(* the code appends to `content`, one record per appended template.        *)
(***************************************************************************)
EXTENDS Integers, Sequences, FiniteSets, TLC

VARIABLES
    variant,        \* which of the four scripts runs
    generateTar,    \* the operator's answer to the archive prompt
    nServices,      \* how many services the server lists
    nInterfaces,    \* how many interfaces the server lists
    catalog,        \* which interface registry the server holds
    pc,             \* position of the script
    i,              \* index of the running for-loop
    services,       \* local `services` of generateProtoFiles
    interfaces,     \* local `interfaces` / `listAllInterfaces`
    response,       \* value the last awaited call resolved to
    pending,        \* operations issued and not yet settled
    files,          \* the output tree: path -> text
    emitted,        \* history: the writes done, as their "Generated ..." log lines
    descriptors,    \* `descriptors` of queryReflectionService
    missingMethods, \* `missingMethods` of queryReflectionService
    archive,        \* the tarball: absent, or the tree it packed
    closed,         \* how many times client.close() ran
    thrown,         \* an error reached main (caught there, or unhandled)
    faults,         \* history: the failures injected so far
    calls           \* history: the reflection calls issued so far

vars == <<variant, generateTar, nServices, nInterfaces, catalog, pc, i, services,
          interfaces, response, pending, files, emitted, descriptors,
          missingMethods, archive, closed, thrown, faults, calls>>

(***************************************************************************)
(* Bounds of the model.                                                    *)
(***************************************************************************)
MaxServices == 2
MaxInterfaces == 2
MaxFaults == 2

(***************************************************************************)
(* JavaScript helpers.                                                     *)
(***************************************************************************)
Last(s) == s[Len(s)]

Front(s) == SubSeq(s, 1, Len(s) - 1)

Min(a, b) == IF a < b THEN a ELSE b

\* String.prototype.toLowerCase on the identifiers of the model's universe.
LowerCase(s) ==
    CASE s = "Query" -> "query"
      [] s = "Msg" -> "msg"
      [] s = "Animal" -> "animal"
      [] s = "Plant" -> "plant"
      [] s = "Thing" -> "thing"
      [] s = "Lion" -> "lion"
      [] s = "Balance" -> "balance"
      [] s = "Send" -> "send"
      [] s = "Proposal" -> "proposal"
      [] s = "Dog" -> "dog"
      [] s = "Cat" -> "cat"
      [] s = "Tree" -> "tree"
      [] s = "TYPE_STRING" -> "type_string"
      [] s = "TYPE_UINT64" -> "type_uint64"
      [] s = "TYPE_MESSAGE" -> "type_message"
      [] s = "GetAuthnDescriptor" -> "getauthndescriptor"
      [] s = "GetChainDescriptor" -> "getchaindescriptor"
      [] s = "GetCodecDescriptor" -> "getcodecdescriptor"
      [] s = "GetConfigurationDescriptor" -> "getconfigurationdescriptor"
      [] s = "GetQueryServicesDescriptor" -> "getqueryservicesdescriptor"
      [] s = "GetTxDescriptor" -> "gettxdescriptor"
      [] OTHER -> s

\* A JavaScript value as `typeof` and Object.entries see it: t is "string",
\* "number", "boolean", "undefined", "null", "array" or "object"; kids are
\* the entries of an object or array, in insertion order.
JsScalar(t) == [t |-> t, kids |-> <<>>]

JsObject(entries) == [t |-> "object", kids |-> entries]

JsArray(entries) == [t |-> "array", kids |-> entries]

Entry(key, value) == [key |-> key, value |-> value]

\* typeof value
TypeOf(v) ==
    IF v.t \in {"null", "array", "object"} THEN "object" ELSE v.t

IndexKey(n) == CASE n = 1 -> "0" [] n = 2 -> "1" [] n = 3 -> "2" [] OTHER -> "n"

\* An array of strings, as Object.entries enumerates it.
JsStrings(names) ==
    JsArray([n \in 1..Len(names) |-> Entry(IndexKey(n), JsScalar("string"))])

\* One piece of text appended to a file; k says which template it is.
Ln(k, p, a, b, c, n) == [k |-> k, p |-> p, a |-> a, b |-> b, c |-> c, n |-> n]
RECURSIVE Flatten(_)
Flatten(ss) == IF ss = <<>> THEN <<>> ELSE Head(ss) \o Flatten(Tail(ss))

(***************************************************************************)
(* What the server holds.  The lists a run sees are the first nServices    *)
(* and nInterfaces entries; the responses to the other calls are fixed.    *)
(***************************************************************************)
AllServices ==
    << [name |-> <<"cosmos", "bank", "Query">>],
       [name |-> <<"cosmos", "bank", "Msg">>],
       [name |-> <<"cosmos", "gov", "Query">>] >>

\* The interface registries a server may hold: fully qualified names; names
\* that differ only in case; a name without a package.
Catalogs == {"plain", "case", "bare"}

AllInterfaces ==
    CASE catalog = "case" ->
           << <<"pkg", "Animal">>, <<"pkg", "animal">>, <<"pkg", "Plant">> >>
      [] catalog = "bare" ->
           << <<"Thing">>, <<"pkg", "Animal">>, <<"pkg", "Plant">> >>
      [] OTHER ->
           << <<"pkg", "Animal">>, <<"pkg", "Plant">>, <<"Thing">> >>

Field(name, type, typeName, hasOptions, deprecated, nullableFalse) ==
    [name |-> name, type |-> type, type_name |-> typeName,
     options |-> [present |-> hasOptions, deprecated |-> deprecated,
                  nullableFalse |-> nullableFalse]]

Method(name, input, output) ==
    [name |-> name, input_type |-> input, output_type |-> output]

\* The decoded FileDescriptorProto of the file that declares `symbol`.
FileDescriptorOf(symbol) ==
    CASE symbol = <<"cosmos", "bank", "Query">> ->
           [package |-> <<"cosmos", "bank">>,
            service |-> << [name |-> "Query", method |->
                << Method("Balance",
                          <<"", "cosmos", "bank", "QueryBalanceRequest">>,
                          <<"", "cosmos", "bank", "QueryBalanceResponse">>) >>] >>,
            message_type |->
              << [name |-> "QueryBalanceRequest", field |->
                    << Field("address", "TYPE_STRING", <<>>, FALSE, FALSE, FALSE),
                       Field("height", "TYPE_UINT64", <<>>, TRUE, TRUE, FALSE) >>],
                 [name |-> "QueryBalanceResponse", field |->
                    << Field("balance", "TYPE_MESSAGE",
                             <<"", "cosmos", "base", "Coin">>, TRUE, FALSE, TRUE) >>] >>]
      [] symbol = <<"cosmos", "bank", "Msg">> ->
           [package |-> <<"cosmos", "bank">>,
            service |-> << [name |-> "Msg", method |->
                << Method("Send",
                          <<"", "cosmos", "bank", "MsgSend">>,
                          <<"", "cosmos", "bank", "MsgSendResponse">>),
                   Method("Balance",
                          <<"", "cosmos", "bank", "MsgSend">>,
                          <<"", "other", "MsgSendResponse">>) >>] >>,
            message_type |->
              << [name |-> "MsgSend", field |->
                    << Field("amount", "TYPE_MESSAGE",
                             <<"", "cosmos", "base", "Coin">>, TRUE, TRUE, TRUE) >>],
                 [name |-> "MsgSendResponse", field |-> <<>>] >>]
      [] OTHER ->
           [package |-> <<"cosmos", "gov">>,
            service |-> << [name |-> "Msg", method |-> <<>>],
                           [name |-> "Query", method |->
                << Method("Proposal",
                          <<"", "cosmos", "gov", "QueryProposalRequest">>,
                          <<"", "cosmos", "gov", "QueryProposalResponse">>) >>] >>,
            message_type |-> <<>>]

\* The implementation_message_names the server returns for an interface.
ImplementationsOf(interfaceName) ==
    CASE interfaceName = <<"pkg", "Animal">> -> << <<"pkg", "Dog">>, <<"pkg", "Cat">> >>
      [] interfaceName = <<"pkg", "Plant">> -> << <<"a", "Tree">>, <<"b", "Tree">> >>
      [] interfaceName = <<"pkg", "animal">> -> << <<"pkg", "Lion">> >>
      [] OTHER -> <<>>

\* The response of a v2alpha1 Get*Descriptor call.
DescriptorOf(method) ==
    CASE method = "GetChainDescriptor" ->
           JsObject(<< Entry("chain_id", JsScalar("string")),
                       Entry("height", JsScalar("number")),
                       Entry("active", JsScalar("boolean")) >>)
      [] method = "GetAuthnDescriptor" ->
           JsObject(<< Entry("authn", JsObject(
                         << Entry("sign_modes", JsArray(
                              << Entry("0", JsObject(
                                   << Entry("name", JsScalar("string")),
                                      Entry("number", JsScalar("number")) >>)) >>)),
                            Entry("enabled", JsScalar("boolean")) >>)),
                       Entry("id", JsScalar("string")) >>)
      [] method = "GetCodecDescriptor" ->
           JsObject(<< Entry("codec", JsScalar("null")),
                       Entry("version", JsScalar("number")) >>)
      [] method = "GetConfigurationDescriptor" ->
           JsObject(<< Entry("config", JsObject(
                         << Entry("bech32_account_address_prefix", JsScalar("string")) >>)),
                       Entry("extra", JsScalar("undefined")),
                       Entry("flag", JsScalar("boolean")) >>)
      [] method = "GetQueryServicesDescriptor" ->
           JsObject(<< Entry("queries", JsObject(<<>>)) >>)
      [] OTHER -> JsObject(<<>>)
(***************************************************************************)
(* Synthesis: the text each generator builds in `content`.                 *)
(***************************************************************************)
Path(dir, file) == [dir |-> dir, file |-> file]

\* "cosmos" script: the file of one interface and its implementations.
generateProtoFilePath_cosmos(interfaceName) ==
    Path(Front(interfaceName), LowerCase(Last(interfaceName)))

generateProtoFileContent_cosmos(interfaceName, implementations) ==
    LET parts == interfaceName
        packageName == Front(parts)
        serviceName == Last(parts)
        rpcs == Flatten([n \in 1..Len(implementations) |->
                  LET methodName == Last(implementations[n])
                  IN  << Ln("comment", <<>>, methodName, serviceName, "", 0),
                         Ln("rpc", <<>>, methodName, methodName \o "Request",
                            methodName \o "Response", 0) >>])
        messages == Flatten([n \in 1..Len(implementations) |->
                  LET methodName == Last(implementations[n])
                  IN  << Ln("comment", <<>>, methodName \o "Request", methodName, "", 0),
                         Ln("message_empty", <<>>, methodName \o "Request", "", "", 0),
                         Ln("comment", <<>>, methodName \o "Response", methodName, "", 0),
                         Ln("message_open", <<>>, methodName \o "Response", "", "", 0),
                         Ln("comment", <<>>, "response field placeholder", "", "", 0),
                         Ln("field", <<>>, "google.protobuf.Any", "result", "", 1),
                         Ln("close", <<>>, "", "", "", 0) >>])
    IN  << Ln("syntax", <<>>, "proto3", "", "", 0),
           Ln("package", packageName, "", "", "", 0),
           Ln("import", <<>>, "google/protobuf/any.proto", "", "", 0),
           Ln("option", packageName, "go_package", "", "", 0),
           Ln("comment", packageName, serviceName, "", "", 0),
           Ln("service_open", <<>>, serviceName, "", "", 0) >>
        \o rpcs
        \o << Ln("close", <<>>, "", "", "", 0) >>
        \o messages

\* descriptor.service.find(s => s.name === name)
FindService(descriptor, name) ==
    LET hits == {n \in 1..Len(descriptor.service) : descriptor.service[n].name = name}
    IN  IF hits = {} THEN <<>>
        ELSE << descriptor.service[CHOOSE n \in hits : \A m \in hits : n <= m] >>

\* options.join(', ') of one field, with its surrounding " [...]".
FieldOptions(field) ==
    IF ~field.options.present THEN ""
    ELSE IF field.options.deprecated /\ field.options.nullableFalse
         THEN " [deprecated = true, (gogoproto.nullable) = false]"
    ELSE IF field.options.deprecated THEN " [deprecated = true]"
    ELSE IF field.options.nullableFalse THEN " [(gogoproto.nullable) = false]"
    ELSE ""

\* The service file of the "full" and "grpc" scripts; `binding` is the piece
\* put inside each rpc's option block, the only place where the two differ.
ServiceFileContent(descriptor, serviceName, binding) ==
    LET packageName == descriptor.package
        found == FindService(descriptor, Last(serviceName))
        serviceLines ==
            IF found = <<>> THEN <<>>
            ELSE LET service == found[1]
                 IN  << Ln("comment", packageName, service.name, "", "", 0),
                        Ln("service_open", <<>>, service.name, "", "", 0) >>
                     \o Flatten([n \in 1..Len(service.method) |->
                          LET method == service.method[n]
                          IN  << Ln("rpc_open", <<>>, method.name,
                                    Last(method.input_type), Last(method.output_type), 0),
                                 Ln(binding, packageName, LowerCase(service.name),
                                    LowerCase(method.name), "", 0),
                                 Ln("rpc_close", <<>>, "", "", "", 0) >>])
                     \o << Ln("close", <<>>, "", "", "", 0) >>
        messageLines ==
            Flatten([n \in 1..Len(descriptor.message_type) |->
              LET message == descriptor.message_type[n]
              IN  << Ln("message_open", <<>>, message.name, "", "", 0) >>
                  \o [index \in 1..Len(message.field) |->
                       LET field == message.field[index]
                           fieldType == IF field.type_name # <<>>
                                        THEN Last(field.type_name)
                                        ELSE LowerCase(field.type)
                       IN  Ln("field", <<>>, fieldType, field.name,
                              FieldOptions(field), index)]
                  \o << Ln("close", <<>>, "", "", "", 0) >>])
    IN  << Ln("syntax", <<>>, "proto3", "", "", 0),
           Ln("package", packageName, "", "", "", 0),
           Ln("import", <<>>, "google/api/annotations.proto", "", "", 0),
           Ln("import", <<>>, "gogoproto/gogo.proto", "", "", 0),
           Ln("import", <<>>, "cosmos/base/query/v1beta1/pagination.proto", "", "", 0),
           Ln("option", packageName, "go_package", "", "", 0) >>
        \o serviceLines
        \o messageLines

generateProtoFilePath_full(descriptor, serviceName) ==
    Path(descriptor.package, LowerCase(Last(serviceName)))

generateProtoFileContent_full(descriptor, serviceName) ==
    ServiceFileContent(descriptor, serviceName, "http_get")

generateProtoFilePath_grpc(descriptor, serviceName) ==
    Path(descriptor.package, LowerCase(Last(serviceName)))

generateProtoFileContent_grpc(descriptor, serviceName) ==
    ServiceFileContent(descriptor, serviceName, "http_unfilled")

\* generateCosmosProtoFile as it would be had it stopped after the first
\* implementation.
generateCosmosProtoFileContent_FirstOnly(interfaceName, implementations) ==
    generateProtoFileContent_cosmos(interfaceName,
        SubSeq(implementations, 1, Min(1, Len(implementations))))

\* "full" script: the file of one interface and its implementations.
generateCosmosProtoFilePath(interfaceName) ==
    Path(Front(interfaceName), LowerCase(Last(interfaceName)))

generateCosmosProtoFileContent(interfaceName, implementations) ==
    LET parts == interfaceName
        packageName == Front(parts)
        serviceName == Last(parts)
        rpcs == Flatten([n \in 1..Len(implementations) |->
                  LET methodName == Last(implementations[n])
                  IN  << Ln("rpc_open", <<>>, methodName, methodName \o "Request",
                            methodName \o "Response", 0),
                         Ln("http_get", packageName, LowerCase(serviceName),
                            LowerCase(methodName), "", 0),
                         Ln("rpc_close", <<>>, "", "", "", 0) >>])
        messages == Flatten([n \in 1..Len(implementations) |->
                  LET methodName == Last(implementations[n])
                  IN  << Ln("message_open", <<>>, methodName \o "Request", "", "", 0),
                         Ln("field", <<>>, "cosmos.base.query.v1beta1.PageRequest",
                            "pagination", "", 1),
                         Ln("close", <<>>, "", "", "", 0),
                         Ln("message_open", <<>>, methodName \o "Response", "", "", 0),
                         Ln("field", <<>>, "cosmos.base.query.v1beta1.PageResponse",
                            "pagination", "", 1),
                         Ln("close", <<>>, "", "", "", 0) >>])
    IN  << Ln("syntax", <<>>, "proto3", "", "", 0),
           Ln("package", packageName, "", "", "", 0),
           Ln("import", <<>>, "google/api/annotations.proto", "", "", 0),
           Ln("import", <<>>, "gogoproto/gogo.proto", "", "", 0),
           Ln("import", <<>>, "cosmos/base/query/v1beta1/pagination.proto", "", "", 0),
           Ln("option", packageName, "go_package", "", "", 0),
           Ln("comment", packageName, serviceName, "", "", 0),
           Ln("service_open", <<>>, serviceName, "", "", 0) >>
        \o rpcs
        \o << Ln("close", <<>>, "", "", "", 0) >>
        \o messages

\* addFields(obj, indent): entries k.. of obj, the next scalar numbered
\* fieldIndex.  A nested object or array becomes a nested message and takes
\* no number; every other value becomes a field.
RECURSIVE addFieldsFrom(_, _, _, _)
addFieldsFrom(entries, k, fieldIndex, indent) ==
    IF k > Len(entries) THEN <<>>
    ELSE LET key == entries[k].key
             value == entries[k].value
         IN  IF TypeOf(value) = "object" /\ value.t # "null"
             THEN << Ln("message_open", <<>>, key, "", indent, 0) >>
                  \o addFieldsFrom(value.kids, 1, 1, indent \o "  ")
                  \o << Ln("close", <<>>, "", "", indent, 0) >>
                  \o addFieldsFrom(entries, k + 1, fieldIndex, indent)
             ELSE LET fieldType ==
                          IF TypeOf(value) = "string" THEN "string"
                          ELSE IF TypeOf(value) = "number" THEN "int64"
                          ELSE IF TypeOf(value) = "boolean" THEN "bool"
                          ELSE "google.protobuf.Any"
                  IN  << Ln("field", <<>>, fieldType, key, indent, fieldIndex) >>
                      \o addFieldsFrom(entries, k + 1, fieldIndex + 1, indent)

\* addFields as it would be had a nested message used up a field number of
\* the message that encloses it.
RECURSIVE addFieldsFrom_CountingNested(_, _, _, _)
addFieldsFrom_CountingNested(entries, k, fieldIndex, indent) ==
    IF k > Len(entries) THEN <<>>
    ELSE LET key == entries[k].key
             value == entries[k].value
         IN  IF TypeOf(value) = "object" /\ value.t # "null"
             THEN << Ln("message_open", <<>>, key, "", indent, 0) >>
                  \o addFieldsFrom_CountingNested(value.kids, 1, 1, indent \o "  ")
                  \o << Ln("close", <<>>, "", "", indent, 0) >>
                  \o addFieldsFrom_CountingNested(entries, k + 1, fieldIndex + 1, indent)
             ELSE LET fieldType ==
                          IF TypeOf(value) = "string" THEN "string"
                          ELSE IF TypeOf(value) = "number" THEN "int64"
                          ELSE IF TypeOf(value) = "boolean" THEN "bool"
                          ELSE "google.protobuf.Any"
                  IN  << Ln("field", <<>>, fieldType, key, indent, fieldIndex) >>
                      \o addFieldsFrom_CountingNested(entries, k + 1, fieldIndex + 1,
                                                      indent)

addFields_CountingNested(obj, indent) ==
    addFieldsFrom_CountingNested(obj.kids, 1, 1, indent)

addFields(obj, indent) == addFieldsFrom(obj.kids, 1, 1, indent)

generateReflectionV2ProtoFilePath(method) ==
    Path(<<"cosmos", "base", "reflection", "v2alpha1">>, LowerCase(method))

generateReflectionV2ProtoFileContent(method, descriptor) ==
    << Ln("syntax", <<>>, "proto3", "", "", 0),
       Ln("package", <<"cosmos", "base", "reflection", "v2alpha1">>, "", "", "", 0),
       Ln("import", <<>>, "google/api/annotations.proto", "", "", 0),
       Ln("import", <<>>, "gogoproto/gogo.proto", "", "", 0),
       Ln("option", <<"server", "grpc", "reflection", "v2alpha1">>, "go_package", "", "", 0),
       Ln("comment", <<>>, method, "", "", 0),
       Ln("service_open", <<>>, "ReflectionService", "", "", 0),
       Ln("rpc_open", <<>>, method, method \o "Request", method \o "Response", 0),
       Ln("http_get", <<"cosmos", "base", "reflection", "v2alpha1">>,
          LowerCase(method), "", "", 0),
       Ln("rpc_close", <<>>, "", "", "", 0),
       Ln("close", <<>>, "", "", "", 0),
       Ln("message_empty", <<>>, method \o "Request", "", "", 0),
       Ln("message_open", <<>>, method \o "Response", "", "", 0) >>
    \o addFields(descriptor, "  ")
    \o << Ln("close", <<>>, "", "", "", 0) >>

\* "query" script: one message with a repeated field per entry.
generateProtoContent(type, descriptor) ==
    << Ln("syntax", <<>>, "proto3", "", "", 0),
       Ln("package", <<"cosmos", "base", "reflection", "v1beta1">>, "", "", "", 0),
       Ln("comment", <<>>, type, "", "", 0),
       Ln("message_open", <<>>, type, "", "", 0) >>
    \o [index \in 1..Len(descriptor.kids) |->
          LET key == descriptor.kids[index].key
              value == descriptor.kids[index].value
          IN  Ln("repeated_field", <<>>,
                 IF TypeOf(value) = "object" THEN "message" ELSE TypeOf(value),
                 key, "", index)]
    \o << Ln("close", <<>>, "", "", "", 0) >>

\* The fixed files of the "cosmos" script, in Object.entries order.
commonProtos_cosmos ==
    << [path |-> Path(<<"google", "protobuf">>, "any"),
        content |->
          << Ln("syntax", <<>>, "proto3", "", "", 0),
             Ln("package", <<"google", "protobuf">>, "", "", "", 0),
             Ln("option", <<>>, "go_package", "", "", 0),
             Ln("comment", <<>>, "Any", "", "", 0),
             Ln("message_open", <<>>, "Any", "", "", 0),
             Ln("field", <<>>, "string", "type_url", "", 1),
             Ln("field", <<>>, "bytes", "value", "", 2),
             Ln("close", <<>>, "", "", "", 0) >>],
       [path |-> Path(<<"cosmos", "base", "v1beta1">>, "coin"),
        content |->
          << Ln("syntax", <<>>, "proto3", "", "", 0),
             Ln("package", <<"cosmos", "base", "v1beta1">>, "", "", "", 0),
             Ln("option", <<>>, "go_package", "", "", 0),
             Ln("comment", <<>>, "Coin", "", "", 0),
             Ln("message_open", <<>>, "Coin", "", "", 0),
             Ln("field", <<>>, "string", "denom", "", 1),
             Ln("field", <<>>, "string", "amount", "", 2),
             Ln("close", <<>>, "", "", "", 0) >>] >>

\* The fixed files of the "grpc" script, in Object.entries order.
commonProtos_grpc ==
    << [path |-> Path(<<"google", "api">>, "annotations"),
        content |->
          << Ln("syntax", <<>>, "proto3", "", "", 0),
             Ln("package", <<"google", "api">>, "", "", "", 0),
             Ln("import", <<>>, "google/api/http.proto", "", "", 0),
             Ln("import", <<>>, "google/protobuf/descriptor.proto", "", "", 0),
             Ln("option", <<>>, "go_package", "", "", 0),
             Ln("extend_open", <<>>, "google.protobuf.MethodOptions", "", "", 0),
             Ln("field", <<>>, "HttpRule", "http", "", 72295728),
             Ln("close", <<>>, "", "", "", 0) >>],
       [path |-> Path(<<"cosmos", "base", "query", "v1beta1">>, "pagination"),
        content |->
          << Ln("syntax", <<>>, "proto3", "", "", 0),
             Ln("package", <<"cosmos", "base", "query", "v1beta1">>, "", "", "", 0),
             Ln("option", <<>>, "go_package", "", "", 0),
             Ln("comment", <<>>, "PageRequest", "", "", 0),
             Ln("message_open", <<>>, "PageRequest", "", "", 0),
             Ln("field", <<>>, "bytes", "key", "", 1),
             Ln("field", <<>>, "uint64", "offset", "", 2),
             Ln("field", <<>>, "uint64", "limit", "", 3),
             Ln("field", <<>>, "bool", "count_total", "", 4),
             Ln("field", <<>>, "bool", "reverse", "", 5),
             Ln("close", <<>>, "", "", "", 0),
             Ln("comment", <<>>, "PageResponse", "", "", 0),
             Ln("message_open", <<>>, "PageResponse", "", "", 0),
             Ln("field", <<>>, "bytes", "next_key", "", 1),
             Ln("field", <<>>, "uint64", "total", "", 2),
             Ln("close", <<>>, "", "", "", 0) >>] >>
(***************************************************************************)
(* The scripts' tables.                                                    *)
(***************************************************************************)
Variants == {"cosmos", "full", "query", "grpc"}

\* `methods` of queryReflectionService.
methods ==
    << [name |-> "ListAllInterfaces", responseKey |-> "listAllInterfaces", iterate |-> FALSE],
       [name |-> "ListImplementations", responseKey |-> "implementations", iterate |-> TRUE],
       [name |-> "GetAuthnDescriptor", responseKey |-> "getAuthnDescriptor", iterate |-> FALSE],
       [name |-> "GetChainDescriptor", responseKey |-> "getChainDescriptor", iterate |-> FALSE],
       [name |-> "GetCodecDescriptor", responseKey |-> "getCodecDescriptor", iterate |-> FALSE],
       [name |-> "GetConfigurationDescriptor", responseKey |-> "getConfigurationDescriptor",
        iterate |-> FALSE],
       [name |-> "GetQueryServicesDescriptor", responseKey |-> "getQueryServicesDescriptor",
        iterate |-> FALSE],
       [name |-> "GetTxDescriptor", responseKey |-> "getTxDescriptor", iterate |-> FALSE] >>

\* `v2Methods` of the "full" script's generateProtoFiles.
v2Methods ==
    << "GetAuthnDescriptor", "GetChainDescriptor", "GetCodecDescriptor",
       "GetConfigurationDescriptor", "GetQueryServicesDescriptor", "GetTxDescriptor" >>

\* The status a failed call carries: grpc status 12 or any other.
CallErrors == {"unimplemented", "error"}

\* The clients main creates, and closes in its finally block.
NumClients == IF variant = "full" THEN 3 ELSE 1

commonProtos == IF variant = "cosmos" THEN commonProtos_cosmos ELSE commonProtos_grpc

(***************************************************************************)
(* State helpers.                                                          *)
(***************************************************************************)
input == <<variant, generateTar, nServices, nInterfaces, catalog>>

Op(kind, name, arg) == [kind |-> kind, name |-> name, arg |-> arg]

NoOp == Op("none", "", <<>>)

NoResponse == <<>>

EmptyTree == [p \in {} |-> <<>>]

NoArchive == [made |-> FALSE, tree |-> EmptyTree]

\* fs.writeFile(path, content): creates the file or replaces its text.
WriteFile(tree, path, content) ==
    [p \in DOMAIN tree \cup {path} |-> IF p = path THEN content ELSE tree[p]]

Take(list, n) == SubSeq(list, 1, Min(n, Len(list)))

\* One write, as the script logs it: which catalog entry, where, what text.
Written(kind, name, path, content) ==
    [kind |-> kind, name |-> name, path |-> path, content |-> content]

\* `await fs.writeFile(filePath, content); console.log(`Generated ...`)`.
Emit(kind, name, path, content) ==
    /\ files' = WriteFile(files, path, content)
    /\ emitted' = Append(emitted, Written(kind, name, path, content))

\* Settle as it would be had the script started `next` without awaiting `op`.
SettleWithoutAwait(op, next) == pending \cup next

\* What is outstanding once the awaited operation `op` has settled and the
\* operations `next` have been started.
Settle(op, next) == (pending \ {op}) \cup next

\* The script resumes from the await of `op`, runs on and suspends at `label`
\* having started `next`.
Resume(op, label, k, next) ==
    /\ pc' = label
    /\ i' = k
    /\ pending' = Settle(op, next)
    /\ calls' = calls \o [n \in 1..Cardinality({o \in next : o.kind = "call"}) |->
                            CHOOSE o \in next : o.kind = "call"]

Goto(op, label, k, next) ==
    /\ Resume(op, label, k, next)
    /\ UNCHANGED <<thrown, closed>>

\* An injected failure of `op`.
Fault(op, kind) ==
    /\ Len(faults) < MaxFaults
    /\ faults' = Append(faults, [name |-> op.name, arg |-> op.arg, kind |-> kind,
                                 at |-> pc])

\* A reflection stream delivers a message that is not the awaited one (an
\* error_response) and ends: the 'data' handler neither resolves nor rejects,
\* no 'end' handler exists, and the script stays at its await for good.
NeverSettles(op) ==
    /\ Fault(op, "error_response")
    /\ pending' = (pending \ {op}) \cup {Op("ended", op.name, op.arg)}
    /\ UNCHANGED <<pc, i, calls, thrown, closed>>

\* main's catch and finally blocks, and its return.  The "query" script has
\* neither: an error there is an unhandled rejection and no client is closed.
MainEnds(op, threw) ==
    /\ Resume(op, "done", 0, {})
    /\ thrown' = threw
    /\ closed' = IF variant = "query" THEN closed ELSE closed + NumClients

\* main as it would be had it archived without looking at the answer.
AfterGenerate_Always(op) == Goto(op, "generateTarball", 0, {Op("fs", "tar", <<>>)})

\* main after generation returned: `if (generateTar) await generateTarball()`.
AfterGenerate(op) ==
    IF generateTar
    THEN Goto(op, "generateTarball", 0, {Op("fs", "tar", <<>>)})
    ELSE MainEnds(op, FALSE)
(***************************************************************************)
(* Loop heads: where each script suspends next.                            *)
(***************************************************************************)
\* generateCommonProtoFiles: `for (const [file, content] of Object.entries(...))`.
ForCommon(op, k) ==
    IF k <= Len(commonProtos)
    THEN Goto(op, "generateCommonProtoFiles_mkdir", k,
              {Op("fs", "mkdir", commonProtos[k].path.dir)})
    ELSE AfterGenerate(op)

\* "cosmos": `for (const interfaceName of interfaces.interface_names)`.
ForInterfaces_cosmos(op, k, names) ==
    IF k <= Len(names)
    THEN Goto(op, "callMethod_ListImplementations", k,
              {Op("call", "ListImplementations", names[k])})
    ELSE ForCommon(op, 1)

\* "full": `for (const method of v2Methods)`.
ForV2Methods(op, k) ==
    IF k <= Len(v2Methods)
    THEN Goto(op, "getReflectionV2Descriptor", k, {Op("call", v2Methods[k], <<>>)})
    ELSE AfterGenerate(op)

\* "full": `for (const interfaceName of interfaces)`.
ForInterfaces_full(op, k, names) ==
    IF k <= Len(names)
    THEN Goto(op, "listImplementations", k,
              {Op("call", "ListImplementations", names[k])})
    ELSE ForV2Methods(op, 1)

\* "full" and "grpc": `for (const service of services)`, and what follows it.
ForServices(op, k, list) ==
    IF k <= Len(list)
    THEN Goto(op, "getFileDescriptor", k,
              {Op("call", "getFileDescriptor", list[k].name)})
    ELSE IF variant = "full"
         THEN Goto(op, "listAllInterfaces", 0, {Op("call", "ListAllInterfaces", <<>>)})
         ELSE ForCommon(op, 1)

IterateIndex == CHOOSE k \in 1..Len(methods) : methods[k].iterate

\* "query": `for (const method of methods)`.
ForMethods(op, k) ==
    IF k > Len(methods) THEN Goto(op, "generateProtoFiles", 0, {})
    ELSE IF methods[k].iterate
         THEN Goto(op, "iterate_ListAllInterfaces", k,
                   {Op("call", "ListAllInterfaces", <<>>)})
         ELSE Goto(op, "queryMethod", k, {Op("call", methods[k].name, <<>>)})

\* "query": `for (const iface of listAllInterfaces.interface_names)`.
ForIfaces_query(op, k, names) ==
    IF k <= Len(names)
    THEN Goto(op, "iterate_ListImplementations", k,
              {Op("call", "ListImplementations", names[k])})
    ELSE ForMethods(op, IterateIndex + 1)

(***************************************************************************)
(* main, up to its first await after the prompt.                           *)
(***************************************************************************)
main ==
    /\ pc = "promptUser"
    /\ IF variant = "query"
       THEN ForMethods(NoOp, 1)
       ELSE Goto(NoOp, "mkdirProtoDir", 0, {Op("fs", "mkdir", <<>>)})
    /\ UNCHANGED <<input, services, interfaces, response, files, emitted, descriptors,
                   missingMethods, archive, faults>>

\* `await fs.mkdir(protoDir, { recursive: true })` of generateProtoFiles.
mkdirProtoDir ==
    LET op == Op("fs", "mkdir", <<>>)
    IN  /\ pc = "mkdirProtoDir"
        /\ op \in pending
        /\ \/ /\ IF variant = "cosmos"
                 THEN Goto(op, "callMethod_ListAllInterfaces", 0,
                           {Op("call", "ListAllInterfaces", <<>>)})
                 ELSE Goto(op, "getServiceList", 0, {Op("call", "getServiceList", <<>>)})
              /\ UNCHANGED faults
           \/ /\ Fault(op, "fs")
              /\ MainEnds(op, TRUE)
        /\ UNCHANGED <<input, services, interfaces, response, files, emitted, descriptors,
                       missingMethods, archive>>

(***************************************************************************)
(* The "cosmos" script.                                                    *)
(***************************************************************************)
\* callMethod(client, 'ListAllInterfaces') settles: the response, or null
\* after a warning whatever the error was.
callMethod_ListAllInterfaces ==
    LET op == Op("call", "ListAllInterfaces", <<>>)
    IN  /\ pc = "callMethod_ListAllInterfaces"
        /\ op \in pending
        /\ \/ /\ interfaces' = Take(AllInterfaces, nInterfaces)
              /\ ForInterfaces_cosmos(op, 1, interfaces')
              /\ UNCHANGED faults
           \/ \E e \in CallErrors :
                /\ Fault(op, e)
                /\ interfaces' = <<>>
                /\ ForCommon(op, 1)
        /\ UNCHANGED <<input, services, response, files, emitted, descriptors, missingMethods,
                       archive>>

callMethod_ListImplementations ==
    LET op == Op("call", "ListImplementations", interfaces[i])
    IN  /\ pc = "callMethod_ListImplementations"
        /\ op \in pending
        /\ \/ /\ response' = ImplementationsOf(interfaces[i])
              /\ Goto(op, "generateProtoFile_cosmos_mkdir", i,
                      {Op("fs", "mkdir", generateProtoFilePath_cosmos(interfaces[i]).dir)})
              /\ UNCHANGED faults
           \/ \E e \in CallErrors :
                /\ Fault(op, e)
                /\ response' = NoResponse
                /\ ForInterfaces_cosmos(op, i + 1, interfaces)
        /\ UNCHANGED <<input, services, interfaces, files, emitted, descriptors, missingMethods,
                       archive>>

\* generateProtoFile: `await fs.mkdir(dirPath, { recursive: true })`.
generateProtoFile_cosmos_mkdir ==
    LET path == generateProtoFilePath_cosmos(interfaces[i])
        op == Op("fs", "mkdir", path.dir)
    IN  /\ pc = "generateProtoFile_cosmos_mkdir"
        /\ op \in pending
        /\ \/ /\ Goto(op, "generateProtoFile_cosmos_writeFile", i,
                      {Op("fs", "writeFile", Append(path.dir, path.file))})
              /\ UNCHANGED faults
           \/ /\ Fault(op, "fs")
              /\ MainEnds(op, TRUE)
        /\ UNCHANGED <<input, services, interfaces, response, files, emitted, descriptors,
                       missingMethods, archive>>

\* generateProtoFile: `await fs.writeFile(filePath, content)`.
generateProtoFile_cosmos_writeFile ==
    LET path == generateProtoFilePath_cosmos(interfaces[i])
        op == Op("fs", "writeFile", Append(path.dir, path.file))
    IN  /\ pc = "generateProtoFile_cosmos_writeFile"
        /\ op \in pending
        /\ \/ /\ Emit("interface", interfaces[i], path,
                      generateProtoFileContent_cosmos(interfaces[i], response))
              /\ ForInterfaces_cosmos(op, i + 1, interfaces)
              /\ UNCHANGED faults
           \/ /\ Fault(op, "fs")
              /\ MainEnds(op, TRUE)
              /\ UNCHANGED <<files, emitted>>
        /\ response' = NoResponse
        /\ UNCHANGED <<input, services, interfaces, descriptors, missingMethods, archive>>

\* generateCommonProtoFiles: `await fs.mkdir(path.dirname(filePath), ...)`.
generateCommonProtoFiles_mkdir ==
    LET path == commonProtos[i].path
        op == Op("fs", "mkdir", path.dir)
    IN  /\ pc = "generateCommonProtoFiles_mkdir"
        /\ op \in pending
        /\ \/ /\ Goto(op, "generateCommonProtoFiles_writeFile", i,
                      {Op("fs", "writeFile", Append(path.dir, path.file))})
              /\ UNCHANGED faults
           \/ /\ Fault(op, "fs")
              /\ MainEnds(op, TRUE)
        /\ UNCHANGED <<input, services, interfaces, response, files, emitted, descriptors,
                       missingMethods, archive>>

\* generateCommonProtoFiles: `await fs.writeFile(filePath, content)`.
generateCommonProtoFiles_writeFile ==
    LET path == commonProtos[i].path
        op == Op("fs", "writeFile", Append(path.dir, path.file))
    IN  /\ pc = "generateCommonProtoFiles_writeFile"
        /\ op \in pending
        /\ \/ /\ Emit("common", <<>>, path, commonProtos[i].content)
              /\ ForCommon(op, i + 1)
              /\ UNCHANGED faults
           \/ /\ Fault(op, "fs")
              /\ MainEnds(op, TRUE)
              /\ UNCHANGED <<files, emitted>>
        /\ UNCHANGED <<input, services, interfaces, response, descriptors,
                       missingMethods, archive>>

\* The name of a file's archive entry: its path relative to cwd, below '.'.
EntryName(path) == <<".">> \o path.dir \o <<path.file>>

\* tar.c as it would be had it packed the files of the root directory only.
tar_c_RootOnly(tree) ==
    LET paths == {p \in DOMAIN tree : p.dir = <<>>}
    IN  [made |-> TRUE,
         tree |-> [e \in {EntryName(p) : p \in paths} |->
                     tree[CHOOSE p \in paths : EntryName(p) = e]]]

\* tar.c({ gzip: true, file: tarPath, cwd: protoDir }, ['.']): every file
\* below protoDir, recursively.
tar_c(tree) ==
    [made |-> TRUE,
     tree |-> [e \in {EntryName(p) : p \in DOMAIN tree} |->
                 tree[CHOOSE p \in DOMAIN tree : EntryName(p) = e]]]

\* `await tar.c({ gzip, file, cwd: protoDir }, ['.'])`, then main's end.
generateTarball ==
    LET op == Op("fs", "tar", <<>>)
    IN  /\ pc = "generateTarball"
        /\ op \in pending
        /\ \/ /\ archive' = tar_c(files)
              /\ MainEnds(op, FALSE)
              /\ UNCHANGED faults
           \/ /\ Fault(op, "fs")
              /\ MainEnds(op, TRUE)
              /\ UNCHANGED archive
        /\ UNCHANGED <<input, services, interfaces, response, files, emitted, descriptors,
                       missingMethods>>
(***************************************************************************)
(* The "full" and "grpc" scripts: generic reflection.                      *)
(***************************************************************************)
generateProtoFilePath(descriptor, serviceName) ==
    IF variant = "full" THEN generateProtoFilePath_full(descriptor, serviceName)
    ELSE generateProtoFilePath_grpc(descriptor, serviceName)

\* generateProtoFile as it would be had it declared only the first method of
\* each service.
generateProtoFileContent_OneRpc(descriptor, serviceName) ==
    ServiceFileContent(
        [descriptor EXCEPT !.service =
            [n \in 1..Len(descriptor.service) |->
                [descriptor.service[n] EXCEPT !.method =
                    SubSeq(@, 1, Min(1, Len(@)))]]],
        serviceName, "http_get")

generateProtoFileContent(descriptor, serviceName) ==
    IF variant = "full" THEN generateProtoFileContent_full(descriptor, serviceName)
    ELSE generateProtoFileContent_grpc(descriptor, serviceName)

\* getServiceList settles: the stream delivered list_services_response, or
\* raised 'error'.  A rejection leaves generateProtoFiles and reaches main.
\* Any other message leaves the promise unsettled.
getServiceList ==
    LET op == Op("call", "getServiceList", <<>>)
    IN  /\ pc = "getServiceList"
        /\ op \in pending
        /\ \/ /\ services' = Take(AllServices, nServices)
              /\ ForServices(op, 1, services')
              /\ UNCHANGED faults
           \/ \E e \in CallErrors :
                /\ Fault(op, e)
                /\ MainEnds(op, TRUE)
                /\ UNCHANGED services
           \/ /\ NeverSettles(op)
              /\ UNCHANGED services
        /\ UNCHANGED <<input, interfaces, response, files, emitted, descriptors, missingMethods,
                       archive>>

\* getFileDescriptor / getServiceDescriptor settles, and parseFileDescriptor
\* decodes what it delivered; the decoder may throw.
getFileDescriptor ==
    LET op == Op("call", "getFileDescriptor", services[i].name)
    IN  /\ pc = "getFileDescriptor"
        /\ op \in pending
        /\ \/ /\ response' = FileDescriptorOf(services[i].name)
              /\ Goto(op, "generateProtoFile_mkdir", i,
                      {Op("fs", "mkdir",
                          generateProtoFilePath(response', services[i].name).dir)})
              /\ UNCHANGED faults
           \/ \E e \in CallErrors \cup {"decode"} :
                /\ Fault(op, e)
                /\ MainEnds(op, TRUE)
                /\ UNCHANGED response
           \/ /\ NeverSettles(op)
              /\ UNCHANGED response
        /\ UNCHANGED <<input, services, interfaces, files, emitted, descriptors, missingMethods,
                       archive>>

\* generateProtoFile: `await fs.mkdir(..., { recursive: true })`.
generateProtoFile_mkdir ==
    LET path == generateProtoFilePath(response, services[i].name)
        op == Op("fs", "mkdir", path.dir)
    IN  /\ pc = "generateProtoFile_mkdir"
        /\ op \in pending
        /\ \/ /\ Goto(op, "generateProtoFile_writeFile", i,
                      {Op("fs", "writeFile", Append(path.dir, path.file))})
              /\ UNCHANGED faults
           \/ /\ Fault(op, "fs")
              /\ MainEnds(op, TRUE)
        /\ UNCHANGED <<input, services, interfaces, response, files, emitted, descriptors,
                       missingMethods, archive>>

\* generateProtoFile: `await fs.writeFile(filePath, content)`.
generateProtoFile_writeFile ==
    LET path == generateProtoFilePath(response, services[i].name)
        op == Op("fs", "writeFile", Append(path.dir, path.file))
    IN  /\ pc = "generateProtoFile_writeFile"
        /\ op \in pending
        /\ \/ /\ Emit("service", services[i].name, path,
                      generateProtoFileContent(response, services[i].name))
              /\ ForServices(op, i + 1, services)
              /\ UNCHANGED faults
           \/ /\ Fault(op, "fs")
              /\ MainEnds(op, TRUE)
              /\ UNCHANGED <<files, emitted>>
        /\ response' = NoResponse
        /\ UNCHANGED <<input, services, interfaces, descriptors, missingMethods, archive>>

(***************************************************************************)
(* The "full" script: interfaces and named descriptors.                    *)
(***************************************************************************)
\* listAllInterfaces settles; it rejects on any error.
listAllInterfaces ==
    LET op == Op("call", "ListAllInterfaces", <<>>)
    IN  /\ pc = "listAllInterfaces"
        /\ op \in pending
        /\ \/ /\ interfaces' = Take(AllInterfaces, nInterfaces)
              /\ ForInterfaces_full(op, 1, interfaces')
              /\ UNCHANGED faults
           \/ \E e \in CallErrors :
                /\ Fault(op, e)
                /\ MainEnds(op, TRUE)
                /\ UNCHANGED interfaces
        /\ UNCHANGED <<input, services, response, files, emitted, descriptors, missingMethods,
                       archive>>

\* listImplementations settles; it rejects on any error.
listImplementations ==
    LET op == Op("call", "ListImplementations", interfaces[i])
    IN  /\ pc = "listImplementations"
        /\ op \in pending
        /\ \/ /\ response' = ImplementationsOf(interfaces[i])
              /\ Goto(op, "generateCosmosProtoFile_mkdir", i,
                      {Op("fs", "mkdir", generateCosmosProtoFilePath(interfaces[i]).dir)})
              /\ UNCHANGED faults
           \/ \E e \in CallErrors :
                /\ Fault(op, e)
                /\ MainEnds(op, TRUE)
                /\ UNCHANGED response
        /\ UNCHANGED <<input, services, interfaces, files, emitted, descriptors, missingMethods,
                       archive>>

generateCosmosProtoFile_mkdir ==
    LET path == generateCosmosProtoFilePath(interfaces[i])
        op == Op("fs", "mkdir", path.dir)
    IN  /\ pc = "generateCosmosProtoFile_mkdir"
        /\ op \in pending
        /\ \/ /\ Goto(op, "generateCosmosProtoFile_writeFile", i,
                      {Op("fs", "writeFile", Append(path.dir, path.file))})
              /\ UNCHANGED faults
           \/ /\ Fault(op, "fs")
              /\ MainEnds(op, TRUE)
        /\ UNCHANGED <<input, services, interfaces, response, files, emitted, descriptors,
                       missingMethods, archive>>

generateCosmosProtoFile_writeFile ==
    LET path == generateCosmosProtoFilePath(interfaces[i])
        op == Op("fs", "writeFile", Append(path.dir, path.file))
    IN  /\ pc = "generateCosmosProtoFile_writeFile"
        /\ op \in pending
        /\ \/ /\ Emit("interface", interfaces[i], path,
                      generateCosmosProtoFileContent(interfaces[i], response))
              /\ ForInterfaces_full(op, i + 1, interfaces)
              /\ UNCHANGED faults
           \/ /\ Fault(op, "fs")
              /\ MainEnds(op, TRUE)
              /\ UNCHANGED <<files, emitted>>
        /\ response' = NoResponse
        /\ UNCHANGED <<input, services, interfaces, descriptors, missingMethods, archive>>

\* getReflectionV2Descriptor settles inside the loop's try block: a rejection
\* is caught there, warned about, and the loop goes on.
getReflectionV2Descriptor ==
    LET op == Op("call", v2Methods[i], <<>>)
    IN  /\ pc = "getReflectionV2Descriptor"
        /\ op \in pending
        /\ \/ /\ response' = DescriptorOf(v2Methods[i])
              /\ Goto(op, "generateReflectionV2ProtoFile_mkdir", i,
                      {Op("fs", "mkdir", generateReflectionV2ProtoFilePath(v2Methods[i]).dir)})
              /\ UNCHANGED faults
           \/ \E e \in CallErrors :
                /\ Fault(op, e)
                /\ response' = NoResponse
                /\ ForV2Methods(op, i + 1)
        /\ UNCHANGED <<input, services, interfaces, files, emitted, descriptors, missingMethods,
                       archive>>

\* generateReflectionV2ProtoFile's mkdir, still inside the loop's try block.
generateReflectionV2ProtoFile_mkdir ==
    LET path == generateReflectionV2ProtoFilePath(v2Methods[i])
        op == Op("fs", "mkdir", path.dir)
    IN  /\ pc = "generateReflectionV2ProtoFile_mkdir"
        /\ op \in pending
        /\ \/ /\ Goto(op, "generateReflectionV2ProtoFile_writeFile", i,
                      {Op("fs", "writeFile", Append(path.dir, path.file))})
              /\ UNCHANGED <<faults, response>>
           \/ /\ Fault(op, "fs")
              /\ response' = NoResponse
              /\ ForV2Methods(op, i + 1)
        /\ UNCHANGED <<input, services, interfaces, files, emitted, descriptors, missingMethods,
                       archive>>

\* generateReflectionV2ProtoFile's writeFile, still inside the try block.
generateReflectionV2ProtoFile_writeFile ==
    LET path == generateReflectionV2ProtoFilePath(v2Methods[i])
        op == Op("fs", "writeFile", Append(path.dir, path.file))
    IN  /\ pc = "generateReflectionV2ProtoFile_writeFile"
        /\ op \in pending
        /\ \/ /\ Emit("descriptor", <<v2Methods[i]>>, path,
                      generateReflectionV2ProtoFileContent(v2Methods[i], response))
              /\ UNCHANGED faults
           \/ /\ Fault(op, "fs")
              /\ UNCHANGED <<files, emitted>>
        /\ ForV2Methods(op, i + 1)
        /\ response' = NoResponse
        /\ UNCHANGED <<input, services, interfaces, descriptors, missingMethods, archive>>
(***************************************************************************)
(* The "query" script.                                                     *)
(***************************************************************************)
\* A dotted name as the string it is in the script.
RECURSIVE Dotted(_)
Dotted(name) ==
    IF name = <<>> THEN ""
    ELSE IF Len(name) = 1 THEN name[1]
    ELSE name[1] \o "." \o Dotted(Tail(name))

\* obj[key] = value
SetProperty(entries, key, value) ==
    IF \E n \in 1..Len(entries) : entries[n].key = key
    THEN [n \in 1..Len(entries) |->
            IF entries[n].key = key THEN Entry(key, value) ELSE entries[n]]
    ELSE Append(entries, Entry(key, value))

GetProperty(entries, key) ==
    entries[CHOOSE n \in 1..Len(entries) : entries[n].key = key].value

\* The decoded response messages (reflection.proto, src/unnamed/part_001).
ListAllInterfacesResponse(names) ==
    JsObject(<< Entry("interface_names", JsStrings(names)) >>)

ListImplementationsResponse(names) ==
    JsObject(<< Entry("implementation_message_names", JsStrings(names)) >>)

QueryResponse(method) ==
    IF method = "ListAllInterfaces"
    THEN ListAllInterfacesResponse(Take(AllInterfaces, nInterfaces))
    ELSE JsObject(<<>>)

\* The catch block of the method loop.
Caught(method, e) ==
    IF e = "unimplemented" THEN Append(missingMethods, method.name) ELSE missingMethods

\* A method without `iterate` settles.
queryMethod ==
    LET method == methods[i]
        op == Op("call", method.name, <<>>)
    IN  /\ pc = "queryMethod"
        /\ op \in pending
        /\ \/ /\ descriptors' = SetProperty(descriptors, method.responseKey,
                                            QueryResponse(method.name))
              /\ UNCHANGED <<missingMethods, faults>>
           \/ \E e \in CallErrors :
                /\ Fault(op, e)
                /\ missingMethods' = Caught(method, e)
                /\ UNCHANGED descriptors
        /\ ForMethods(op, i + 1)
        /\ UNCHANGED <<input, services, interfaces, response, files, emitted, archive>>

\* The ListAllInterfaces call of the `iterate` branch settles.
iterate_ListAllInterfaces ==
    LET method == methods[IterateIndex]
        op == Op("call", "ListAllInterfaces", <<>>)
    IN  /\ pc = "iterate_ListAllInterfaces"
        /\ op \in pending
        /\ \/ /\ interfaces' = Take(AllInterfaces, nInterfaces)
              /\ descriptors' = SetProperty(descriptors, method.responseKey, JsObject(<<>>))
              /\ ForIfaces_query(op, 1, interfaces')
              /\ UNCHANGED <<missingMethods, faults>>
           \/ \E e \in CallErrors :
                /\ Fault(op, e)
                /\ missingMethods' = Caught(method, e)
                /\ ForMethods(op, IterateIndex + 1)
                /\ UNCHANGED <<descriptors, interfaces>>
        /\ UNCHANGED <<input, services, response, files, emitted, archive>>

\* One ListImplementations call of the `iterate` branch settles.
iterate_ListImplementations ==
    LET method == methods[IterateIndex]
        iface == interfaces[i]
        op == Op("call", "ListImplementations", iface)
        sofar == GetProperty(descriptors, method.responseKey)
    IN  /\ pc = "iterate_ListImplementations"
        /\ op \in pending
        /\ \/ /\ descriptors' =
                   SetProperty(descriptors, method.responseKey,
                     JsObject(SetProperty(sofar.kids, Dotted(iface),
                        ListImplementationsResponse(ImplementationsOf(iface)))))
              /\ ForIfaces_query(op, i + 1, interfaces)
              /\ UNCHANGED <<missingMethods, faults>>
           \/ \E e \in CallErrors :
                /\ Fault(op, e)
                /\ missingMethods' = Caught(method, e)
                /\ ForMethods(op, IterateIndex + 1)
                /\ UNCHANGED descriptors
        /\ UNCHANGED <<input, services, interfaces, response, files, emitted, archive>>

\* The files generateProtoFiles(descriptors) writes, in order.
DescriptorFiles(descs) ==
    Flatten([k \in 1..Len(descs) |->
      LET key == descs[k].key
          descriptor == descs[k].value
      IN  IF TypeOf(descriptor) = "object" /\ descriptor.t # "array"
          THEN [n \in 1..Len(descriptor.kids) |->
                  Written("descriptor", <<key, descriptor.kids[n].key>>,
                          Path(<<key>>, descriptor.kids[n].key),
                          generateProtoContent(key, descriptor.kids[n].value))]
          ELSE << Written("descriptor", <<key>>, Path(<<key>>, key),
                          generateProtoContent(key, descriptor)) >>])

RECURSIVE WriteAll(_, _, _)
WriteAll(tree, writes, n) ==
    IF n = 0 THEN tree
    ELSE WriteFile(WriteAll(tree, writes, n - 1), writes[n].path, writes[n].content)

\* generateProtoFiles(descriptors), synchronous: every mkdirSync and
\* writeFileSync in turn; one of them may throw, which nothing catches.
generateProtoFiles_query ==
    LET writes == DescriptorFiles(descriptors)
    IN  /\ pc = "generateProtoFiles"
        /\ \/ /\ files' = WriteAll(files, writes, Len(writes))
              /\ emitted' = emitted \o writes
              /\ AfterGenerate(NoOp)
              /\ UNCHANGED faults
           \/ \E n \in 0..Len(writes) :
                /\ Fault(Op("fs", "sync", <<>>), "fs")
                /\ files' = WriteAll(files, writes, n)
                /\ emitted' = emitted \o Take(writes, n)
                /\ MainEnds(NoOp, TRUE)
        /\ UNCHANGED <<input, services, interfaces, response, descriptors,
                       missingMethods, archive>>

(***************************************************************************)
(* The specification.                                                      *)
(***************************************************************************)
Init ==
    /\ variant \in Variants
    /\ generateTar \in BOOLEAN
    /\ nServices \in (IF variant \in {"full", "grpc"} THEN 0..MaxServices ELSE {0})
    /\ nInterfaces \in (IF variant = "grpc" THEN {0} ELSE 0..MaxInterfaces)
    /\ catalog \in (IF nInterfaces = 0 THEN {"plain"} ELSE Catalogs)
    /\ pc = "promptUser"
    /\ i = 0
    /\ services = <<>>
    /\ interfaces = <<>>
    /\ response = NoResponse
    /\ pending = {}
    /\ files = EmptyTree
    /\ emitted = <<>>
    /\ descriptors = <<>>
    /\ missingMethods = <<>>
    /\ archive = NoArchive
    /\ closed = 0
    /\ thrown = FALSE
    /\ faults = <<>>
    /\ calls = <<>>

Next ==
    \/ main
    \/ mkdirProtoDir
    \/ callMethod_ListAllInterfaces
    \/ callMethod_ListImplementations
    \/ generateProtoFile_cosmos_mkdir
    \/ generateProtoFile_cosmos_writeFile
    \/ generateCommonProtoFiles_mkdir
    \/ generateCommonProtoFiles_writeFile
    \/ generateTarball
    \/ getServiceList
    \/ getFileDescriptor
    \/ generateProtoFile_mkdir
    \/ generateProtoFile_writeFile
    \/ listAllInterfaces
    \/ listImplementations
    \/ generateCosmosProtoFile_mkdir
    \/ generateCosmosProtoFile_writeFile
    \/ getReflectionV2Descriptor
    \/ generateReflectionV2ProtoFile_mkdir
    \/ generateReflectionV2ProtoFile_writeFile
    \/ queryMethod
    \/ iterate_ListAllInterfaces
    \/ iterate_ListImplementations
    \/ generateProtoFiles_query

Spec == Init /\ [][Next]_vars

\* The server answers every request and the file system completes every
\* operation: the event loop runs the continuation of whatever has settled.
FairSpec == Spec /\ WF_vars(Next)
(***************************************************************************)
(* Vocabulary of the properties.                                           *)
(***************************************************************************)
Done == pc = "done"

FaultKinds == {faults[n].kind : n \in 1..Len(faults)}

\* The reflection calls that failed, as the operations they were.
FailedCalls(kind) ==
    {Op("call", faults[n].name, faults[n].arg) : n \in {m \in 1..Len(faults) :
        faults[m].kind = kind}}

CallOf(name, arg) == Op("call", name, arg)

\* The calls a run issues, in order, when no call aborts another: the list
\* calls, then one call per entry of each list the run obtained, then the
\* named-descriptor calls.
ExpectedCalls ==
    LET perService == [n \in 1..Len(services) |->
                         CallOf("getFileDescriptor", services[n].name)]
        perInterface == [n \in 1..Len(interfaces) |->
                           CallOf("ListImplementations", interfaces[n])]
    IN  CASE variant = "cosmos" ->
               << CallOf("ListAllInterfaces", <<>>) >> \o perInterface
          [] variant = "grpc" ->
               << CallOf("getServiceList", <<>>) >> \o perService
          [] variant = "full" ->
               << CallOf("getServiceList", <<>>) >> \o perService
               \o << CallOf("ListAllInterfaces", <<>>) >> \o perInterface
               \o [n \in 1..Len(v2Methods) |-> CallOf(v2Methods[n], <<>>)]
          [] OTHER ->
               << CallOf("ListAllInterfaces", <<>>), CallOf("ListAllInterfaces", <<>>) >>
               \o perInterface
               \o [n \in 1..(Len(methods) - IterateIndex) |->
                     CallOf(methods[IterateIndex + n].name, <<>>)]

\* Text well-formedness.
BraceDelta(line) ==
    CASE line.k \in {"service_open", "message_open", "rpc_open", "extend_open"} -> 1
      [] line.k \in {"close", "rpc_close"} -> 2
      [] OTHER -> 0

RECURSIVE DepthAfter(_, _)
DepthAfter(content, n) ==
    IF n = 0 THEN 0
    ELSE LET d == BraceDelta(content[n])
         IN  IF d = 2 THEN DepthAfter(content, n - 1) - 1
             ELSE DepthAfter(content, n - 1) + d

\* Every closing brace closes an open one, and none is left open.  (A "close"
\* at depth 0 would make DepthAfter leave the naturals, so it is looked for
\* before the depth is computed.)
RECURSIVE NeverBelowZero(_, _, _)
NeverBelowZero(content, n, depth) ==
    IF n > Len(content) THEN depth = 0
    ELSE LET d == BraceDelta(content[n])
         IN  IF d = 2 THEN depth > 0 /\ NeverBelowZero(content, n + 1, depth - 1)
             ELSE NeverBelowZero(content, n + 1, depth + d)

BalancedBraces(content) == NeverBelowZero(content, 1, 0)

PackageCount(content) ==
    Cardinality({n \in 1..Len(content) : content[n].k = "package"})

\* The positions of the file's top-level service and message declarations.
TopLevelDeclarations(content) ==
    {n \in 1..Len(content) :
        /\ content[n].k \in {"service_open", "message_open", "message_empty"}
        /\ DepthAfter(content, n - 1) = 0}

UniqueNames(content) ==
    \A m, n \in TopLevelDeclarations(content) :
        content[m].a = content[n].a => m = n

WellFormed(content) ==
    /\ BalancedBraces(content)
    /\ PackageCount(content) = 1
    /\ UniqueNames(content)

\* The auxiliary bundle the specification names: pagination and any-wrapper.
AuxiliaryBundle ==
    { Path(<<"cosmos", "base", "query", "v1beta1">>, "pagination"),
      Path(<<"google", "protobuf">>, "any") }

ServicePaths ==
    {generateProtoFilePath(FileDescriptorOf(AllServices[n].name), AllServices[n].name) :
        n \in 1..Min(nServices, Len(AllServices))}

InterfacePaths ==
    {generateCosmosProtoFilePath(AllInterfaces[n]) :
        n \in 1..Min(nInterfaces, Len(AllInterfaces))}

DescriptorPaths ==
    {generateReflectionV2ProtoFilePath(v2Methods[n]) : n \in 1..Len(v2Methods)}

Dialects == {"generic", "cosmos", "v2"}

DialectOf(name) ==
    IF name \in {"getServiceList", "getFileDescriptor"} THEN "generic"
    ELSE IF name \in {"ListAllInterfaces", "ListImplementations"} THEN "cosmos"
    ELSE "v2"

DialectPaths(d) ==
    IF d = "generic" THEN ServicePaths
    ELSE IF d = "cosmos" THEN InterfacePaths
    ELSE DescriptorPaths

AllFailedCalls == FailedCalls("unimplemented") \cup FailedCalls("error")

CallsIssued == {calls[n] : n \in 1..Len(calls)}

(***************************************************************************)
(* Properties.                                                             *)
(***************************************************************************)

\* C1: a call failing as unimplemented never aborts the run.  In a finished
\* run whose only failures are unimplemented calls, no error reached main and
\* every later call of the sequence was still issued.
C1_UnimplementedNeverAborts ==
    (variant \in {"query", "full"} /\ Done /\ faults # <<>>
        /\ FaultKinds = {"unimplemented"})
        => (~thrown /\ calls = ExpectedCalls)

\* C2: when every reflection call returns unimplemented, the run completes
\* normally and the output tree is exactly the auxiliary bundle (pagination
\* and any-wrapper files), with no service or interface file.
C2_AllUnimplementedLeavesBundle ==
    (variant \in {"cosmos", "grpc"} /\ Done /\ calls # <<>>
          /\ FaultKinds = {"unimplemented"}
          /\ CallsIssued = FailedCalls("unimplemented"))
        => (~thrown /\ DOMAIN files = AuxiliaryBundle)

\* C3: the three collection phases are independent.  In a finished run of the
\* three-dialect script where every call made to one dialect failed and
\* nothing else did, the files of the other dialects are all there.
C3_PhasesIndependent ==
    \A d \in Dialects :
        (/\ variant = "full"
         /\ Done
         /\ AllFailedCalls # {}
         /\ FaultKinds \subseteq CallErrors
         /\ \A c \in CallsIssued : DialectOf(c.name) = d <=> c \in AllFailedCalls)
        => \A other \in Dialects \ {d} : DialectPaths(other) \subseteq DOMAIN files

\* C4: the reported list of missing methods holds exactly the methods whose
\* call failed with status 12, once each, in method-table order.
MethodsFailedUnimplemented ==
    {n \in 1..Len(methods) :
        \E c \in FailedCalls("unimplemented") : c.name = methods[n].name}

RECURSIVE TableOrder(_, _)
TableOrder(indices, n) ==
    IF n > Len(methods) THEN <<>>
    ELSE (IF n \in indices THEN << methods[n].name >> ELSE <<>>)
         \o TableOrder(indices, n + 1)

C4_MissingMethodsExact ==
    (variant = "query" /\ Done)
        => missingMethods = TableOrder(MethodsFailedUnimplemented, 1)

\* C5: a call failing with an error other than unimplemented leaves no
\* catalog entry and does not stop the calls after it.  In a finished run
\* whose only failures are such calls, no error reached main, every later
\* call was issued, and the catalog holds nothing for the failed lookups.
ResponseKeyOf(name) ==
    methods[CHOOSE k \in 1..Len(methods) : methods[k].name = name].responseKey

HasKey(entries, key) == \E n \in 1..Len(entries) : entries[n].key = key

NoEntryForFailed ==
    \A n \in 1..Len(faults) :
        LET f == faults[n]
        IN  f.kind = "error" =>
              CASE f.at = "queryMethod" ->
                     ~HasKey(descriptors, ResponseKeyOf(f.name))
                [] f.at = "iterate_ListAllInterfaces" ->
                     ~HasKey(descriptors, "implementations")
                [] f.at = "iterate_ListImplementations" ->
                     ~HasKey(GetProperty(descriptors, "implementations").kids,
                             Dotted(f.arg))
                [] f.at \in {"callMethod_ListImplementations", "listImplementations"} ->
                     generateCosmosProtoFilePath(f.arg) \notin DOMAIN files
                [] OTHER -> TRUE

C5_OtherErrorSkipsEntryOnly ==
    (variant \in {"query", "cosmos", "full"} /\ Done /\ faults # <<>>
        /\ FaultKinds = {"error"})
        => (~thrown /\ calls = ExpectedCalls /\ NoEntryForFailed)

\* C6: a decode failure of one service's descriptor only costs that service
\* its file.  In a finished run whose only failure is one decode failure, no
\* error reached main, the file of every other service is there, and the
\* later calls were issued.
C6_DecodeFailureIsolated ==
    (Done /\ Len(faults) = 1 /\ FaultKinds = {"decode"})
        => /\ ~thrown
           /\ calls = ExpectedCalls
           /\ \A n \in 1..Len(services) :
                 LET path == generateProtoFilePath(FileDescriptorOf(services[n].name),
                                                   services[n].name)
                 IN  services[n].name # faults[1].arg => path \in DOMAIN files

\* C7: a filesystem failure is fatal.  Once a directory creation or a file
\* write has failed the run has ended with the error, nothing is outstanding
\* and no archive exists.
C7_FilesystemFailureFatal ==
    ("fs" \in FaultKinds)
        => (Done /\ thrown /\ pending = {} /\ ~archive.made)

\* C8: at most one operation (reflection call or file operation) is
\* outstanding at any time: each is started only when the one before it has
\* settled.
C8_OneOutstanding == Cardinality(pending) <= 1

\* C8 witness: the lookup for the second interface is outstanding, alone,
\* after the first interface's lookup and file write have completed.
C8_Witness ==
    /\ pc \in {"listImplementations", "callMethod_ListImplementations",
               "iterate_ListImplementations"}
    /\ i = 2
    /\ pending = {Op("call", "ListImplementations", interfaces[2])}
    /\ Len(calls) >= 3

\* C11: the file emitted for an interface with implementation list L
\* declares exactly |L| RPCs, named by the last segment of each implementation
\* in list order, and exactly 2*|L| placeholder messages, <Name>Request then
\* <Name>Response for each implementation.
IsRpc(line) == line.k \in {"rpc", "rpc_open"}

IsMessage(line) == line.k \in {"message_open", "message_empty"}

\* The names a file declares, in the order of the text.
RpcNames(content) ==
    LET lines == SelectSeq(content, IsRpc)
    IN  [n \in 1..Len(lines) |-> lines[n].a]

MessageNames(content) ==
    LET lines == SelectSeq(content, IsMessage)
    IN  [n \in 1..Len(lines) |-> lines[n].a]

PlaceholderNames(L) ==
    Flatten([n \in 1..Len(L) |-> << Last(L[n]) \o "Request", Last(L[n]) \o "Response" >>])

C11_InterfaceFileDeclarations ==
    \A k \in 1..Len(emitted) :
        emitted[k].kind = "interface" =>
            LET L == ImplementationsOf(emitted[k].name)
            IN  /\ RpcNames(emitted[k].content) = [n \in 1..Len(L) |-> Last(L[n])]
                /\ MessageNames(emitted[k].content) = PlaceholderNames(L)

\* C11 witness: the file of pkg.Animal, whose implementations are pkg.Dog and
\* pkg.Cat, has been written by the three-dialect script.
C11_Witness ==
    /\ variant = "full"
    /\ \E k \in 1..Len(emitted) :
          /\ emitted[k].kind = "interface"
          /\ emitted[k].name = <<"pkg", "Animal">>
          /\ RpcNames(emitted[k].content) = <<"Dog", "Cat">>

\* C12: the file emitted for a service holds one RPC declaration per method
\* of that service, in method order, whose input and output types are the
\* last segments of the declared type names.
MethodsOf(serviceName) ==
    LET descriptor == FileDescriptorOf(serviceName)
        n == CHOOSE m \in 1..Len(descriptor.service) :
                descriptor.service[m].name = Last(serviceName)
    IN  descriptor.service[n].method

RpcSignatures(content) ==
    LET lines == SelectSeq(content, IsRpc)
    IN  [n \in 1..Len(lines) |-> << lines[n].a, lines[n].b, lines[n].c >>]

C12_ServiceFileRpcs ==
    \A k \in 1..Len(emitted) :
        emitted[k].kind = "service" =>
            LET M == MethodsOf(emitted[k].name)
            IN  RpcSignatures(emitted[k].content) =
                  [n \in 1..Len(M) |->
                     << M[n].name, Last(M[n].input_type), Last(M[n].output_type) >>]

\* C12 witness: the file of cosmos.bank.Msg, a service of two methods, has
\* been written.
C12_Witness ==
    \E k \in 1..Len(emitted) :
        /\ emitted[k].kind = "service"
        /\ emitted[k].name = <<"cosmos", "bank", "Msg">>
        /\ Len(RpcSignatures(emitted[k].content)) = 2

\* C13: in the message synthesized from a named-descriptor payload every
\* entry is emitted with a type chosen by the shape of its value: textual
\* gives string, numeric int64, boolean bool, a nested mapping a nested
\* message, and anything else (null, list, absent value) the any wrapper; a
\* flat payload of n scalar entries gives fields numbered 1..n in entry order.
TypeByShape(value) ==
    CASE value.t = "string" -> "string"
      [] value.t = "number" -> "int64"
      [] value.t = "boolean" -> "bool"
      [] OTHER -> "google.protobuf.Any"

RECURSIVE EntriesTypedByShape(_, _, _)
EntriesTypedByShape(entries, indent, content) ==
    \A n \in 1..Len(entries) :
        LET key == entries[n].key
            value == entries[n].value
        IN  IF value.t = "object"
            THEN /\ \E m \in 1..Len(content) :
                      /\ content[m].k = "message_open"
                      /\ content[m].a = key
                      /\ content[m].c = indent
                 /\ EntriesTypedByShape(value.kids, indent \o "  ", content)
            ELSE \E m \in 1..Len(content) :
                      /\ content[m].k = "field"
                      /\ content[m].b = key
                      /\ content[m].c = indent
                      /\ content[m].a = TypeByShape(value)

IsFlat(payload) ==
    \A n \in 1..Len(payload.kids) :
        payload.kids[n].value.t \in {"string", "number", "boolean"}

FieldsOf(content, indent) ==
    LET IsField(line) == line.k = "field" /\ line.c = indent
        lines == SelectSeq(content, IsField)
    IN  [n \in 1..Len(lines) |-> << lines[n].b, lines[n].n >>]

C13_FieldTypesByShape ==
    \A k \in 1..Len(emitted) :
        (variant = "full" /\ emitted[k].kind = "descriptor") =>
            LET payload == DescriptorOf(emitted[k].name[1])
            IN  /\ EntriesTypedByShape(payload.kids, "  ", emitted[k].content)
                /\ IsFlat(payload) =>
                      FieldsOf(emitted[k].content, "  ") =
                        [n \in 1..Len(payload.kids) |-> << payload.kids[n].key, n >>]

\* C14: in the message synthesized from a nested payload, field numbers are
\* assigned per nesting level: within each message, top-level or nested at
\* any depth, the fields are numbered consecutively from 1 in the order of
\* the text, whatever the numbering of the enclosing and sibling messages.
\* `counters` holds, innermost first, the last number used in each open block.
RECURSIVE NumberedPerLevel(_, _, _)
NumberedPerLevel(content, n, counters) ==
    IF n > Len(content) THEN TRUE
    ELSE LET line == content[n]
         IN  CASE BraceDelta(line) = 1 ->
                    NumberedPerLevel(content, n + 1, <<0>> \o counters)
               [] BraceDelta(line) = 2 ->
                    NumberedPerLevel(content, n + 1, Tail(counters))
               [] line.k \in {"field", "repeated_field"} ->
                    /\ line.n = Head(counters) + 1
                    /\ NumberedPerLevel(content, n + 1, <<line.n>> \o Tail(counters))
               [] OTHER -> NumberedPerLevel(content, n + 1, counters)

C14_NumberingPerLevel ==
    \A k \in 1..Len(emitted) :
        emitted[k].kind = "descriptor" => NumberedPerLevel(emitted[k].content, 1, <<>>)

\* C14 witness: the file of GetAuthnDescriptor has been written; its payload
\* nests three levels, and the field `id` follows the nested message `authn`
\* yet is numbered 1, as is the field `enabled` inside `authn`.
C14_Witness ==
    \E k \in 1..Len(emitted) :
        /\ emitted[k].kind = "descriptor"
        /\ emitted[k].name = <<"GetAuthnDescriptor">>
        /\ FieldsOf(emitted[k].content, "  ") = << <<"id", 1>> >>
        /\ FieldsOf(emitted[k].content, "    ") = << <<"enabled", 1>> >>
        /\ FieldsOf(emitted[k].content, "        ") = << <<"name", 1>>, <<"number", 2>> >>

\* C15: every completed run writes the auxiliary bundle whatever the catalog
\* holds, and the output is self-contained: every file named in an import
\* statement of a generated file is in the output tree at the end of the run.
\* The file an import statement names, as a path under the output root.
ImportTarget(name) ==
    CASE name = "google/protobuf/any.proto" -> Path(<<"google", "protobuf">>, "any")
      [] name = "google/protobuf/descriptor.proto" ->
           Path(<<"google", "protobuf">>, "descriptor")
      [] name = "google/api/annotations.proto" -> Path(<<"google", "api">>, "annotations")
      [] name = "google/api/http.proto" -> Path(<<"google", "api">>, "http")
      [] name = "gogoproto/gogo.proto" -> Path(<<"gogoproto">>, "gogo")
      [] name = "cosmos/base/query/v1beta1/pagination.proto" ->
           Path(<<"cosmos", "base", "query", "v1beta1">>, "pagination")
      [] OTHER -> Path(<<>>, name)

Imports(content) ==
    {ImportTarget(content[n].a) : n \in {m \in 1..Len(content) : content[m].k = "import"}}

BundlePaths == {commonProtos[n].path : n \in 1..Len(commonProtos)}

SelfContained == \A p \in DOMAIN files : Imports(files[p]) \subseteq DOMAIN files

C15_BundleWrittenAndSelfContained ==
    (variant # "query" /\ Done /\ ~thrown)
        => (BundlePaths \subseteq DOMAIN files /\ SelfContained)

\* C16: after a completed run the output tree holds one distinct file per
\* discovered service and per discovered interface: no two catalog entries
\* were written to the same path, so no entry's file was overwritten.
EntryWrites == {k \in 1..Len(emitted) : emitted[k].kind \in {"service", "interface"}}

C16_OneFilePerEntry ==
    (variant # "query" /\ Done /\ faults = <<>>) =>
        /\ \A a, b \in EntryWrites : emitted[a].path = emitted[b].path => a = b
        /\ Cardinality({emitted[k].path : k \in EntryWrites} \cap DOMAIN files)
             = Len(services) + Len(interfaces)

\* C17: the file synthesized for a discovered interface or service has a
\* non-empty namespace path, the name without its last segment, which is
\* also the declared package and the directory, and a file name equal to the
\* lower-cased last segment of the name.
PackageOf(content) ==
    content[CHOOSE n \in 1..Len(content) : content[n].k = "package"].p

C17_NamespaceAndFileName ==
    \A k \in EntryWrites :
        /\ emitted[k].path.dir # <<>>
        /\ emitted[k].path.dir = Front(emitted[k].name)
        /\ PackageOf(emitted[k].content) = emitted[k].path.dir
        /\ emitted[k].path.file = LowerCase(Last(emitted[k].name))

\* C18: the archive step starts only after every file write of the run has
\* completed, and the archive holds the whole tree under the output root as
\* it is at that moment, each entry under its path relative to the root.
\* What extracting the archive into an empty directory gives.
Extracted(entries) ==
    LET paths == {Path(SubSeq(e, 2, Len(e) - 1), Last(e)) : e \in DOMAIN entries}
    IN  [p \in paths |-> entries[EntryName(p)]]

C18_ArchiveIsWholeTree ==
    /\ Op("fs", "tar", <<>>) \in pending => pending = {Op("fs", "tar", <<>>)}
    /\ archive.made =>
          /\ \A e \in DOMAIN archive.tree : Head(e) = "."
          /\ Extracted(archive.tree) = files

\* C18 witness: an archive was made of a tree of at least three files in
\* different directories.
C18_Witness ==
    /\ archive.made
    /\ Cardinality(DOMAIN archive.tree) >= 3
    /\ Cardinality({p.dir : p \in DOMAIN files}) >= 2

\* C19: the archive is produced exactly when the operator asked for it,
\* generation returned without an error reaching main, and the archive step
\* itself did not fail; when generation throws, the archive step is skipped
\* and the files already written stay in the tree.
C19_ArchiveIffAskedAndNoThrow ==
    /\ archive.made => (generateTar /\ ~thrown)
    /\ (Done /\ generateTar /\ ~thrown) => archive.made

\* C19 as stated: the archive is produced if and only if the operator asked
\* for it and generation finished without a failure propagating to main.
GenerationThrew == thrown /\ faults[Len(faults)].at # "generateTarball"

C19_AsStated ==
    (variant # "query" /\ Done) => (archive.made <=> (generateTar /\ ~GenerationThrew))

\* C19 witness: generation threw after a file was written, the operator
\* having asked for the archive; the file is in the tree and no archive exists.
C19_Witness ==
    /\ Done
    /\ generateTar
    /\ GenerationThrew
    /\ files # EmptyTree
    /\ ~archive.made

\* C20: every reflection client that was created is closed exactly once when
\* generation has ended, whether it succeeded or threw, and no reflection call
\* is outstanding or issued once the clients are closed.
C20_ClientsClosedOnce ==
    /\ Done => closed = NumClients
    /\ closed > 0 => (Done /\ pending = {})

\* C21: provided the server answers every request (a unary call with a
\* response or an error, a reflection stream with some message or an error,
\* after which it ends), every pending call eventually settles and the run
\* eventually reaches its end.
C21_RunEventuallyEnds == <>(Done /\ pending = {})

\* C10: every synthesized file is well-formed: balanced braces, exactly one
\* package, no message or service name declared twice.
C10_FilesWellFormed ==
    \A p \in DOMAIN files : WellFormed(files[p])
====
